---- MODULE Spec2Model ----
(***************************************************************************)
(* The per-request telemetry state machine of the async-graphql            *)
(* OpenTelemetry extension (src/src/lib.rs, src/src/types.rs).             *)
(*                                                                         *)
(* One OpenTelemetry instance per request (OpenTelemetryExtension::create),*)
(* the tracing subscriber's span table, the three process-wide metric      *)
(* instruments and the wall clock.  Every Extension callback is one        *)
(* action.  The host engine delivers the callbacks of a request either in  *)
(* any order or in the normal order of a request, with steps skipped.      *)
(*                                                                         *)
(* Option<T> is a sequence of length at most one: None is << >>,           *)
(* Some(x) is <<x>>.  Time is counted in milliseconds.                     *)
(***************************************************************************)
EXTENDS Integers, Sequences, FiniteSets, Bags, TLC

\* ----------------------------------------------------------------- bounds
MaxResolves == 2
MaxTime == 1
MaxErrors == 2

NanosPerMilli == 1000000

\* ------------------------------------------------------------ Option<T>
None == << >>
Some(x) == <<x>>
is_some(o) == o # << >>
is_none(o) == o = << >>
unwrap(o) == o[1]
unwrap_or_default(o) == IF o = << >> THEN "" ELSE o[1]

\* What a callback other than result hands back carries no telemetry.
Unit == [callback |-> "other", value |-> None]

\* ------------------------------------------------------------- requests
Requests == {1, 2}
FirstRequest == CHOOSE r \in Requests : \A q \in Requests : r <= q

\* What ctx.data_opt::<OpenTelemetryConfig>() may yield: nothing, or a
\* configuration built from the default with parent_span or
\* enable_apollo_tracing.  parent is TRUE when the caller supplied a span.
OpenTelemetryConfig_default == [parent |-> FALSE, return_tracing_data_to_client |-> TRUE]
parent_span(cfg) == [cfg EXCEPT !.parent = TRUE]
enable_apollo_tracing(cfg, enable) == [cfg EXCEPT !.return_tracing_data_to_client = enable]
Contexts ==
    { None,
      Some(parent_span(OpenTelemetryConfig_default)),
      Some(enable_apollo_tracing(OpenTelemetryConfig_default, FALSE)) }

\* The fields of the query of tests::basic_test, as the engine reports them
\* in ResolveInfo: path_node, parent_type, return_type.
Fields ==
    << [path_node |-> <<"getJane">>, parent_type |-> "QueryRoot", return_type |-> "Query!"],
       [path_node |-> <<"getJane", "id">>, parent_type |-> "Query", return_type |-> "Int!"],
       [path_node |-> <<"getJane", "details", "name">>, parent_type |-> "SubQuery", return_type |-> "String!"] >>

\* ResolveInfo values the engine may pass: resolve_id.current, the optional
\* resolve_id.parent (no node is its own parent) and the field the engine
\* gave that resolve id.
ResolveIds == {1, 2}
ParentIds == {None, Some(0)} \cup {Some(p) : p \in ResolveIds}
FieldOf(c) == Fields[((c - 1) % Len(Fields)) + 1]
ResolveInfos ==
    { info \in { [current |-> c, parent |-> p, field |-> FieldOf(c)] :
                    c \in ResolveIds, p \in ParentIds } :
        info.parent # Some(info.current) }

\* QueryPathNode::to_string: the segments joined by "."
RECURSIVE path_to_string(_)
path_to_string(path) ==
    IF Len(path) = 0 THEN ""
    ELSE IF Len(path) = 1 THEN path[1]
    ELSE path[1] \o "." \o path_to_string(Tail(path))

\* QueryPathNode::to_string_vec and field_name
to_string_vec(path) == path
field_name(path) == path[Len(path)]

\* chrono::Duration::num_nanoseconds of a difference of two instants; the
\* instants of the model are whole milliseconds, far from the i64 limit at
\* which the conversion yields None.
num_nanoseconds(d) == d * NanosPerMilli
\* num_nanoseconds yields None when the count does not fit an i64, that is
\* when the duration exceeds 9223372036854 milliseconds in magnitude
\* (i64::MAX / 1000000); the number is compared in two parts, the millions
\* and the rest.
I64MaxMillisHigh == 9223372
I64MaxMillisLow == 36854
magnitude(d) == IF d < 0 THEN -d ELSE d
\* (a conversion that takes only a positive duration for a valid one)
fits_only_positive(d) == d > 0
fits_i64_nanoseconds(d) ==
    \/ magnitude(d) \div NanosPerMilli < I64MaxMillisHigh
    \/ /\ magnitude(d) \div NanosPerMilli = I64MaxMillisHigh
       /\ magnitude(d) % NanosPerMilli <= I64MaxMillisLow
checked_num_nanoseconds(d) == IF fits_i64_nanoseconds(d) THEN Some(num_nanoseconds(d)) ELSE None
\* `nanos as f64 / 1_000_000.`
as_millis_f64(nanos) == nanos \div NanosPerMilli
\* DateTime::to_rfc3339
to_rfc3339(t) == [rfc3339 |-> t]

\* -------------------------------------------------------------- the state
VARIABLES
    now,                    \* Utc::now()
    spans,                  \* the subscriber: bag of the spans entered and not exited
    traces,                 \* per request: Traces {root, parse, validation, execute}
    fields,                 \* per request: BTreeMap<usize, TelemetryData>
    metrics,                \* per request: Metrics {start_time, end_time, resolves}
    query_name,             \* per request: Option<String>
    query_root,             \* per request: Option<String>
    HTTP_REQUESTS,          \* counter graphql_requests: bag of label sets
    HTTP_REQUESTS_ERRORS,   \* counter graphql_request_errors: bag of label sets
    HTTP_REQUEST_DURATION,  \* recorder graphql_request_duration: bag of observations
    returned,               \* what the most recent callback returned
    bad_exit,               \* whether a span was exited that was not entered
    dropped_entered,        \* per request: whether a span handle was dropped unexited
    engine,                 \* how the host engine orders its calls
    stage,                  \* per request: rank of the latest event (normal order only)
    calls                   \* per request: number of error and result calls so far

vars == <<now, spans, traces, fields, metrics, query_name, query_root,
          HTTP_REQUESTS, HTTP_REQUESTS_ERRORS, HTTP_REQUEST_DURATION,
          returned, bad_exit, dropped_entered, engine, stage, calls>>

instruments == <<HTTP_REQUESTS, HTTP_REQUESTS_ERRORS, HTTP_REQUEST_DURATION>>

\* ------------------------------------------------- the tracing subscriber
\* A Span is what the code gives it: its name (kind), the resolve id for a
\* field span (key, 0 otherwise), the owning request and its parent.  spans
\* is the bag of the spans that are entered, not exited, and whose handle
\* the extension holds.  Every place of the code that exits a span drops
\* its handle in the same callback.  A handle dropped without an exit
\* (Option::replace, BTreeMap::insert over an entry) leaves its span
\* entered for good: no exit can reach it any more, and the model keeps
\* the fact in dropped_entered.
span_ref(span) == [kind |-> span.kind, key |-> span.key]
\* (a span that never gets a parent)
parent_never(slot) == None
parent_of(slot) == IF
 is_some(slot) THEN Some(span_ref(unwrap(slot))) ELSE None

\* The span a caller hands over in OpenTelemetryConfig.parent.
CallerSpan == [kind |-> "caller", key |-> 0]

\* span!(target: TARGET, parent: p, ...)
new_span(kind, key, parent, r) == [kind |-> kind, key |-> key, req |-> r, parent |-> parent]

\* d.enter(id) of a new span whose handle then goes into a slot that held
\* old: Option::replace and BTreeMap::insert drop the old handle.
span_enter(table, span, old) == (table (-) SetToBag({old[i] : i \in DOMAIN old})) (+) SetToBag({span})

\* (exits that leave the spans entered)
span_exit_nothing(table, exits) == table
\* d.exit(id) for each span of the sequence, in order

RECURSIVE span_exit(_, _)
span_exit(table, exits) ==
    IF Len(exits) = 0 THEN table
    ELSE span_exit(table (-) SetToBag({Head(exits)}), Tail(exits))

\* Whether a sequence of exits hits only entered spans, each once.
RECURSIVE exits_entered(_, _)
exits_entered(table, exits) ==
    \/ Len(exits) = 0
    \/ /\ BagIn(Head(exits), table)
       /\ exits_entered(table (-) SetToBag({Head(exits)}), Tail(exits))

\* ----------------------------------------------- BTreeMap<usize, _>
EmptyMap == [k \in {} |-> None]
\* (an insert that drops the other entries)
map_insert_alone(m, k, v) == [i \in {k} |-> v]
map_insert(m, k, v) ==
 [i \in DOMAIN m \cup {k} |-> IF i = k THEN v ELSE m[i]]
\* (a remove that leaves the entry in the map, as a get would)
map_remove_keeps_entry(m, k) == m
map_remove(m, k) == [i \in DOMAIN m \ {k} |-> m[i]]
\* (a clear that is forgotten)
map_clear_forgotten(m) == m
map_clear(m) == EmptyMap
map_get(m, k) == IF k \in DOMAIN m THEN Some(m[k]) ELSE None
\* (an iteration in descending order of the keys)
RECURSIVE keys_descending(_)
keys_descending(ks) ==
    IF ks = {} THEN << >>
    ELSE LET greatest == CHOOSE k \in ks : \A j \in ks : k >= j
         IN <<greatest>> \o keys_descending(ks \ {greatest})
\* BTreeMap::iter visits the keys in ascending order.

RECURSIVE keys_ascending(_)
keys_ascending(ks) ==
    IF ks = {} THEN << >>
    ELSE LET least == CHOOSE k \in ks : \A j \in ks : k <= j
         IN <<least>> \o keys_ascending(ks \ {least})
map_iter(m) == keys_ascending(DOMAIN m)

\* ------------------------------------------ Vec<ResolveStat>::sort_by
\* (an unstable variant: an element goes in front of its equals)
RECURSIVE insert_sorted_unstable(_, _)
insert_sorted_unstable(sorted, x) ==
    IF Len(sorted) = 0 THEN <<x>>
    ELSE IF sorted[Len(sorted)].start_offset < x.start_offset THEN Append(sorted, x)
    ELSE Append(insert_sorted_unstable(SubSeq(sorted, 1, Len(sorted) - 1), x),
                sorted[Len(sorted)])
\* slice::sort_by is a stable sort: an element goes behind every element
\* that does not compare greater.
RECURSIVE insert_sorted(_, _)
insert_sorted(sorted, x) ==
    IF Len(sorted) = 0 THEN <<x>>
    ELSE IF sorted[Len(sorted)].start_offset <= x.start_offset THEN Append(sorted, x)
    ELSE Append(insert_sorted(SubSeq(sorted, 1, Len(sorted) - 1), x), sorted[Len(sorted)])
RECURSIVE sort_by_start_offset(_)
sort_by_start_offset(v) ==
    IF Len(v) = 0 THEN << >>
    ELSE insert_sorted(sort_by_start_offset(SubSeq(v, 1, Len(v) - 1)), v[Len(v)])

\* ------------------------------------------------ the host engine
\* The normal sequence of one request.  Any step may be skipped, the two
\* field events repeat, error may come at any point.
Lifecycle ==
    << "prepare_request", "parse_start", "parse_end", "validation_start",
       "validation_end", "execution_start", "resolve", "execution_end", "result" >>
Rank(ev) == CHOOSE i \in DOMAIN Lifecycle : Lifecycle[i] = ev
Repeatable == {"resolve"}
\* Whether ev may come when the latest event delivered had rank reached.
can_follow(reached, ev) ==
    \/ reached < Rank(ev)
    \/ reached = Rank(ev) /\ ev \in Repeatable

\* The engine delivers event ev of request r: in any order at all, or in
\* the normal order, remembering what it delivered.  result is the last
\* callback of a request in either case: the engine takes the extensions'
\* results when it builds the response and drops the instance with it.
deliver(r, ev) ==
    /\ calls[r].result = 0
    /\ engine' = engine
    /\ IF engine = "normal order"
       THEN /\ ev # "error" => can_follow(stage[r], ev)
            /\ stage' = [stage EXCEPT ![r] = IF ev = "error" THEN @ ELSE Rank(ev)]
       ELSE stage' = stage

\* ---------------------------------------------------------------- create
\* OpenTelemetryExtension::create: start_time and end_time are read from the
\* clock one after the other (here within the same millisecond), nothing is
\* open.
Create ==
    /\ now = 0
    /\ metrics = [r \in Requests |-> [start_time |-> now, end_time |-> now, resolves |-> << >>]]
    /\ spans = EmptyBag
    /\ traces = [r \in Requests |-> [root |-> None, parse |-> None, validation |-> None, execute |-> None]]
    /\ fields = [r \in Requests |-> EmptyMap]
    /\ query_name = [r \in Requests |-> None]
    /\ query_root = [r \in Requests |-> None]
    /\ HTTP_REQUESTS = EmptyBag
    /\ HTTP_REQUESTS_ERRORS = EmptyBag
    /\ HTTP_REQUEST_DURATION = EmptyBag
    /\ returned = Unit
    /\ bad_exit = FALSE
    /\ dropped_entered = [r \in Requests |-> FALSE]
    /\ stage = [r \in Requests |-> 0]
    /\ calls = [r \in Requests |-> [error |-> 0, result |-> 0]]

Init == Create /\ engine = "any order"
InitLifecycle == Create /\ engine = "normal order"

\* The wall clock advances between events.
Tick ==
    /\ now < MaxTime
    /\ now' = now + 1
    /\ UNCHANGED <<spans, traces, fields, metrics, query_name, query_root,
                   instruments, returned, bad_exit, dropped_entered, engine, stage, calls>>

\* ------------------------------------------------------ Extension callbacks
\* (the two labels taken from each other's field)
labels_swapped(r) ==
    [query |-> unwrap_or_default(query_root[r]), root |-> unwrap_or_default(query_name[r])]
\* Labels of a metric emission: QUERY.string(query_name), ROOT.string(query_root)
labels(r) ==
    [query |-> unwrap_or_default(query_name[r]), root |-> unwrap_or_default(query_root[r])]

\* (handles taken out of their slot and never exited)
exit_spans_forgotten(r, exits) == UNCHANGED <<spans, bad_exit, dropped_entered>>
\* The exits of one callback: the spans leave the table.

exit_spans(r, exits) ==
    /\ spans' = span_exit(spans, exits)
    /\ bad_exit' = (bad_exit \/ ~exits_entered(spans, exits))
    /\ UNCHANGED dropped_entered

\* A callback enters span and stores its handle where old was stored.
enter_span(r, span, old) ==
    /\ spans' = span_enter(spans, span, old)
    /\ dropped_entered' = [dropped_entered EXCEPT ![r] = @ \/ is_some(old)]
    /\ UNCHANGED bad_exit

\* A callback that neither enters nor exits a span.
no_span == UNCHANGED <<spans, bad_exit, dropped_entered>>

prepare_request(r, ctx) ==
    /\ LET cfg == ctx
           parent == IF is_some(cfg) /\ unwrap(cfg).parent THEN Some(CallerSpan) ELSE None
           root_span == new_span("request", 0, parent, r)
       IN /\ enter_span(r, root_span, traces[r].root)
          /\ traces' = [traces EXCEPT ![r].root = Some(root_span)]
    /\ deliver(r, "prepare_request")
    /\ returned' = Unit
    /\ UNCHANGED <<now, fields, metrics, query_name, query_root, instruments,
                   calls>>

\* (a parse_start that opens its span whether or not there is a root)
parse_start_without_root(r) ==
    /\ LET parse_span == new_span("parse", 0, parent_of(traces[r].root), r)
       IN /\ enter_span(r, parse_span, traces[r].parse)
          /\ traces' = [traces EXCEPT ![r].parse = Some(parse_span)]
          /\ metrics' = [metrics EXCEPT ![r].start_time = now]
    /\ deliver(r, "parse_start")
    /\ returned' = Unit
    /\ UNCHANGED <<now, fields, query_name, query_root, instruments, calls>>

parse_start(r) ==
    /\ IF is_some(traces[r].root)
       THEN LET parse_span == new_span("parse", 0, parent_of(traces[r].root), r)
            IN /\ enter_span(r, parse_span, traces[r].parse)
               /\ traces' = [traces EXCEPT ![r].parse = Some(parse_span)]
               /\ metrics' = [metrics EXCEPT ![r].start_time = now]
       ELSE no_span /\ UNCHANGED <<traces, metrics>>
    /\ deliver(r, "parse_start")
    /\ returned' = Unit
    /\ UNCHANGED <<now, fields, query_name, query_root, instruments,
                   calls>>

\* (a validation_start that also reads the clock into the start time)
validation_start_sets_start_time(r) ==
    /\ IF is_some(traces[r].root)
       THEN LET validation_span == new_span("validation", 0, parent_of(traces[r].root), r)
            IN /\ enter_span(r, validation_span, traces[r].validation)
               /\ traces' = [traces EXCEPT ![r].validation = Some(validation_span)]
               /\ metrics' = [metrics EXCEPT ![r].start_time = now]
       ELSE no_span /\ UNCHANGED <<traces, metrics>>
    /\ deliver(r, "validation_start")
    /\ returned' = Unit
    /\ UNCHANGED <<now, fields, query_name, query_root, instruments, calls>>

validation_start(r) ==

    /\ IF is_some(traces[r].root)
       THEN LET validation_span == new_span("validation", 0, parent_of(traces[r].root), r)
            IN /\ enter_span(r, validation_span, traces[r].validation)
               /\ traces' = [traces EXCEPT ![r].validation = Some(validation_span)]
       ELSE no_span /\ UNCHANGED traces
    /\ deliver(r, "validation_start")
    /\ returned' = Unit
    /\ UNCHANGED <<now, fields, metrics, query_name, query_root, instruments,
                   calls>>

parse_end(r) ==
    /\ exit_spans(r, traces[r].parse)
    /\ traces' = [traces EXCEPT ![r].parse = None]
    /\ deliver(r, "parse_end")
    /\ returned' = Unit
    /\ UNCHANGED <<now, fields, metrics, query_name, query_root, instruments,
                   calls>>

validation_end(r) ==
    /\ exit_spans(r, traces[r].validation)
    /\ traces' = [traces EXCEPT ![r].validation = None]
    /\ deliver(r, "validation_end")
    /\ returned' = Unit
    /\ UNCHANGED <<now, fields, metrics, query_name, query_root, instruments,
                   calls>>

execution_start(r) ==
    /\ LET execute_span == new_span("execute", 0, parent_of(traces[r].root), r)
       IN /\ enter_span(r, execute_span, traces[r].execute)
          /\ traces' = [traces EXCEPT ![r].execute = Some(execute_span)]
    /\ deliver(r, "execution_start")
    /\ returned' = Unit
    /\ UNCHANGED <<now, fields, metrics, query_name, query_root, instruments,
                   calls>>

\* (an execution_end that does not read the clock)
execution_end_keeps_end_time(r) ==
    /\ exit_spans(r, traces[r].execute \o traces[r].root)
    /\ traces' = [traces EXCEPT ![r].execute = None, ![r].root = None]
    /\ deliver(r, "execution_end")
    /\ returned' = Unit
    /\ UNCHANGED <<now, fields, metrics, query_name, query_root, instruments, calls>>

execution_end(r) ==
    /\ exit_spans(r, traces[r].execute \o traces[r].root)
    /\ traces' = [traces EXCEPT ![r].execute = None, ![r].root = None]
    /\ metrics' = [metrics EXCEPT ![r].end_time = now]
    /\ deliver(r, "execution_end")
    /\ returned' = Unit
    /\ UNCHANGED <<now, fields, query_name, query_root, instruments, calls>>

\* (a capture that is left out)
capture_never(slot, v) == slot
\* (a capture that overwrites what was captured)

capture_overwriting(slot, v) == Some(v)
\* `if self.query_name.is_none() { self.query_name = Some(..) }`
capture_once(slot, v) == IF is_none(slot) THEN Some(v) ELSE slot

\* (a choice that falls back to the execute span when the parent id is not
\* in flight)
resolve_parent_span_or_execute(r, info) ==
    IF is_some(info.parent) /\ unwrap(info.parent) > 0
          /\ is_some(map_get(fields[r], unwrap(info.parent)))
    THEN Some(unwrap(map_get(fields[r], unwrap(info.parent))).span)
    ELSE traces[r].execute
\* (a choice that falls back to the root span when there is no execute span)

resolve_parent_span_or_root(r, info) ==
    IF is_some(info.parent) /\ unwrap(info.parent) > 0
    THEN LET data == map_get(fields[r], unwrap(info.parent))
         IN IF is_some(data) THEN Some(unwrap(data).span) ELSE None
    ELSE IF is_some(traces[r].execute) THEN traces[r].execute ELSE traces[r].root
\* The parent span resolve_start picks for info, if any.

resolve_parent_span(r, info) ==
    IF is_some(info.parent) /\ unwrap(info.parent) > 0
    THEN LET data == map_get(fields[r], unwrap(info.parent))
         IN IF is_some(data) THEN Some(unwrap(data).span) ELSE None
    ELSE traces[r].execute

\* TelemetryData::new
TelemetryData_new(span, path_node, parent_type, return_type) ==
    [ span |-> span,
      metrics |-> [ path |-> to_string_vec(path_node),
                    field_name |-> field_name(path_node),
                    parent_type |-> parent_type,
                    return_type |-> return_type,
                    start_time |-> now ] ]

resolve_start(r, info) ==
    LET parent == resolve_parent_span(r, info)
    IN /\ IF is_some(parent)
          THEN /\ query_name' = [query_name EXCEPT ![r] =
                                    capture_once(@, path_to_string(info.field.path_node))]
               /\ query_root' = [query_root EXCEPT ![r] =
                                    capture_once(@, info.field.parent_type)]
               /\ LET span == new_span("field_resolver", info.current, parent_of(parent), r)
                  IN /\ enter_span(r, span, IF info.current \in DOMAIN fields[r]
                                              THEN Some(fields[r][info.current].span) ELSE None)
                     /\ fields' = [fields EXCEPT ![r] =
                            map_insert(@, info.current,
                                TelemetryData_new(span, info.field.path_node,
                                    info.field.parent_type, info.field.return_type))]
          ELSE no_span /\ UNCHANGED <<query_name, query_root, fields>>
       /\ engine = "normal order" => info.current \notin DOMAIN fields[r]
       /\ deliver(r, "resolve")
       /\ returned' = Unit
       /\ UNCHANGED <<now, traces, metrics, instruments, calls>>

resolve_end(r, info) ==
    /\ info.current \in DOMAIN fields[r] => Len(metrics[r].resolves) < MaxResolves
    /\ IF info.current \in DOMAIN fields[r]
       THEN LET telemetry_data == fields[r][info.current]
                pending_resolve == telemetry_data.metrics
                start_offset ==
                    num_nanoseconds(pending_resolve.start_time - metrics[r].start_time)
            IN /\ fields' = [fields EXCEPT ![r] = map_remove(@, info.current)]
               /\ exit_spans(r, <<telemetry_data.span>>)
               /\ metrics' = [metrics EXCEPT ![r].resolves =
                    Append(@, [ pending_resolve |-> pending_resolve,
                                start_offset |-> start_offset,
                                end_time |-> now ])]
       ELSE no_span /\ UNCHANGED <<fields, metrics>>
    /\ deliver(r, "resolve")
    /\ returned' = Unit
    /\ UNCHANGED <<now, traces, query_name, query_root, instruments, calls>>

\* (an unwind that stops after the field spans)
error_exits_fields_only(r) ==
    [i \in 1..Len(map_iter(fields[r])) |-> fields[r][map_iter(fields[r])[i]].span]
\* The spans error exits, in the order it exits them: the in-flight fields
\* as the map iterates, then execute, validation, parse, root.
error_exits(r) ==
    [i \in 1..Len(map_iter(fields[r])) |-> fields[r][map_iter(fields[r])[i]].span]
        \o traces[r].execute \o traces[r].validation \o traces[r].parse \o traces[r].root

\* (an error that clears the in-flight map of every request, as it would if
\* the map were shared)
error_clears_every_map(r) ==
    /\ calls[r].error < MaxErrors
    /\ exit_spans(r, error_exits(r))
    /\ fields' = [q \in Requests |-> map_clear(fields[q])]
    /\ HTTP_REQUESTS' = HTTP_REQUESTS (+) SetToBag({labels(r)})
    /\ HTTP_REQUESTS_ERRORS' = HTTP_REQUESTS_ERRORS (+) SetToBag({labels(r)})
    /\ traces' = [traces EXCEPT ![r] =
            [root |-> None, parse |-> None, validation |-> None, execute |-> None]]
    /\ calls' = [calls EXCEPT ![r].error = @ + 1]
    /\ deliver(r, "error")
    /\ returned' = Unit
    /\ UNCHANGED <<now, metrics, query_name, query_root, HTTP_REQUEST_DURATION>>

error(r) ==

    /\ calls[r].error < MaxErrors
    /\ exit_spans(r, error_exits(r))
    /\ fields' = [fields EXCEPT ![r] = map_clear(@)]
    /\ HTTP_REQUESTS' = HTTP_REQUESTS (+) SetToBag({labels(r)})
    /\ HTTP_REQUESTS_ERRORS' = HTTP_REQUESTS_ERRORS (+) SetToBag({labels(r)})
    /\ traces' = [traces EXCEPT ![r] =
            [root |-> None, parse |-> None, validation |-> None, execute |-> None]]
    /\ calls' = [calls EXCEPT ![r].error = @ + 1]
    /\ deliver(r, "error")
    /\ returned' = Unit
    /\ UNCHANGED <<now, metrics, query_name, query_root, HTTP_REQUEST_DURATION>>

\* impl Serialize for ResolveStat
serialize(stat) ==
    [ path |-> stat.pending_resolve.path,
      fieldName |-> stat.pending_resolve.field_name,
      parentType |-> stat.pending_resolve.parent_type,
      returnType |-> stat.pending_resolve.return_type,
      startOffset |-> stat.start_offset,
      duration |-> num_nanoseconds(stat.end_time - stat.pending_resolve.start_time) ]

\* (a gate that also withholds the summary when there is no configuration)
gate_requires_config(ctx, value) ==
    IF is_some(ctx) /\ unwrap(ctx).return_tracing_data_to_client THEN Some(value) ELSE None
\* `if let Some(cfg) = .. { if !cfg.return_tracing_data_to_client { return None } } Some(result)`
gate(ctx, value) ==
    IF is_some(ctx) /\ ~unwrap(ctx).return_tracing_data_to_client THEN None ELSE Some(value)

\* What the caller of result sees when `.expect("should be valid duration")`
\* panics.
Panicked == [callback |-> "result panicked", value |-> None]

result(r, ctx) ==
    /\ LET resolves == sort_by_start_offset(metrics[r].resolves)
           checked == checked_num_nanoseconds(metrics[r].end_time - metrics[r].start_time)
           request_duration == unwrap(checked)
           value == [ version |-> 1,
                      startTime |-> to_rfc3339(metrics[r].start_time),
                      endTime |-> to_rfc3339(metrics[r].end_time),
                      duration |-> request_duration,
                      execution |->
                        [resolvers |-> [i \in 1..Len(resolves) |-> serialize(resolves[i])]] ]
       IN /\ metrics' = [metrics EXCEPT ![r].resolves = resolves]
          /\ IF is_none(checked)
             THEN /\ returned' = Panicked
                  /\ UNCHANGED <<HTTP_REQUESTS, HTTP_REQUEST_DURATION>>
             ELSE /\ HTTP_REQUESTS' = HTTP_REQUESTS (+) SetToBag({labels(r)})
                  /\ HTTP_REQUEST_DURATION' = HTTP_REQUEST_DURATION (+)
                        SetToBag({[ value |-> as_millis_f64(request_duration),
                                    labels |-> labels(r) ]})
                  /\ returned' = [callback |-> "result", value |-> gate(ctx, value)]

    /\ deliver(r, "result")
    /\ calls' = [calls EXCEPT ![r].result = @ + 1]
    /\ no_span
    /\ UNCHANGED <<now, traces, fields, query_name, query_root, HTTP_REQUESTS_ERRORS>>

\* ------------------------------------------------------- specification
\* No callback branches on a reading of the clock: the times are data that
\* is stored, subtracted and reported.  The claims about spans, the
\* in-flight map and the counters are therefore checked with the clock
\* standing still (Spec, SpecLifecycle), the claims about times with the
\* clock running (SpecClock).

\* The events of a request that runs without an error.
Progress(r) ==
    \/ \E ctx \in Contexts : prepare_request(r, ctx)
    \/ parse_start(r)
    \/ parse_end(r)
    \/ validation_start(r)
    \/ validation_end(r)
    \/ execution_start(r)
    \/ execution_end(r)
    \/ \E info \in ResolveInfos : resolve_start(r, info)
    \/ \E info \in ResolveInfos : resolve_end(r, info)
    \/ \E ctx \in Contexts : result(r, ctx)

\* The events of one request.
Event(r) == Progress(r) \/ error(r)

Next == Event(FirstRequest)

\* The callbacks in any order the host engine may deliver them.
Spec == Init /\ [][Next]_vars

\* The callbacks under an engine that keeps the normal order.
SpecLifecycle == InitLifecycle /\ [][Next]_vars

\* A request without an error under an engine that keeps the normal order,
\* while time passes.
NextClock == Tick \/ Progress(FirstRequest)
SpecClock == InitLifecycle /\ [][NextClock]_vars

\* ================================================================ claims
\* What the claims speak about.

\* The span tracker of a request: its four phase slots and its in-flight map.
NoPhaseSpan(r) ==
    traces[r] = [root |-> None, parse |-> None, validation |-> None, execute |-> None]
Unwound(r) == NoPhaseSpan(r) /\ fields[r] = EmptyMap

\* The spans whose handle the tracker of r holds.
Held(r) ==
    {traces[r][slot][1] : slot \in {s \in DOMAIN traces[r] : traces[r][s] # None}}
        \cup {fields[r][k].span : k \in DOMAIN fields[r]}
\* The spans of r that are entered and not exited.
OpenSpans(r) == {s \in BagToSet(spans) : s.req = r}

\* A step that opens no span, exits none and leaves the tracker as it was.
TrackerUntouched(r) ==
    /\ spans' = spans
    /\ traces'[r] = traces[r]
    /\ fields'[r] = fields[r]

\* The labels an emission of r carries, written out.
CurrentLabels(r) ==
    [ query |-> IF query_name[r] = None THEN "" ELSE query_name[r][1],
      root |-> IF query_root[r] = None THEN "" ELSE query_root[r][1] ]

OneMore(bag, e) == bag (+) SetToBag({e})

ErrorStep(r) == error(r)
ResultStep(r) == \E ctx \in Contexts : result(r, ctx)

\* ---------------------------------------------------------------- C1
\* C1: after any error call, whatever the tracker held before (any subset
\* of the phase spans, any number of fields in flight), the in-flight map
\* is empty and root, parse, validation and execute are all absent.
C1_ErrorUnwindsTracker ==
    [][\A r \in Requests : ErrorStep(r) => Unwound(r)']_vars

\* An error has fired and no stat was ever recorded, yet a field had been
\* tracked (the query name is captured): error removed it from the map.
C1_Witness ==
    /\ calls[FirstRequest].error = 1
    /\ calls[FirstRequest].result = 0
    /\ is_some(query_name[FirstRequest])
    /\ metrics[FirstRequest].resolves = << >>
    /\ Unwound(FirstRequest)

\* ---------------------------------------------------------------- C2
\* C2 (as stated): once a terminal event (result or error) has fired, every
\* span the request opened is closed, none is exited twice and none is left
\* behind, also when lifecycle steps were skipped.
C2_AllClosedAtTerminal ==
    \A r \in Requests :
        (calls[r].error > 0 \/ calls[r].result > 0)
            => (OpenSpans(r) = {} /\ ~bad_exit /\ ~dropped_entered[r])

\* C2 (amended): under an engine that keeps the normal order no span is
\* exited twice and no handle is dropped unexited, so the open spans of a
\* request are exactly the spans its tracker holds, each entered once and
\* at most one of them a root; error exits all of them; result exits none,
\* so after result exactly the spans whose end event was skipped are open.
C2_TrackerInv ==
    \A r \in Requests :
        /\ ~bad_exit
        /\ ~dropped_entered[r]
        /\ OpenSpans(r) = Held(r)
        /\ \A s \in OpenSpans(r) : CopiesIn(s, spans) = 1
        /\ Cardinality({s \in OpenSpans(r) : s.kind = "request"}) <= 1
C2_TerminalStep ==
    \A r \in Requests :
        /\ ErrorStep(r) => OpenSpans(r)' = {}
        /\ ResultStep(r) => spans' = spans
C2_ClosedByTracker == []C2_TrackerInv /\ [][C2_TerminalStep]_vars

\* A request that went through execution with a field, ended it all and
\* got its result: nothing is open.
C2_Witness ==
    /\ engine = "normal order"
    /\ calls[FirstRequest].result = 1
    /\ calls[FirstRequest].error = 0
    /\ Len(metrics[FirstRequest].resolves) > 0
    /\ metrics[FirstRequest].resolves[1].pending_resolve.parent_type = "QueryRoot"
    /\ OpenSpans(FirstRequest) = {}

\* ---------------------------------------------------------------- C3
\* C3 (as stated): after error has fired, every later event other than
\* prepare_request and error (execution_start, resolve_start and result
\* among them) leaves the span tracker alone.
C3_NoOpAfterError ==
    [][\A r \in Requests :
        ( /\ calls[r].error > 0
          /\ ~ErrorStep(r)
          /\ ~(\E ctx \in Contexts : prepare_request(r, ctx)) )
        => TrackerUntouched(r)]_vars

\* C3 (amended): once error has unwound the tracker, parse_start,
\* parse_end, validation_start, validation_end, execution_end,
\* resolve_start, resolve_end and result open no span, exit none and leave
\* the tracker unwound; prepare_request and execution_start are the events
\* that open a span again.
C3_NoOpWhileUnwound ==
    [][\A r \in Requests :
        ( /\ calls[r].error > 0
          /\ Unwound(r)
          /\ ~ErrorStep(r)
          /\ ~(\E ctx \in Contexts : prepare_request(r, ctx))
          /\ ~execution_start(r) )
        => (TrackerUntouched(r) /\ bad_exit' = bad_exit)]_vars

\* A result delivered after an error, the tracker still unwound.
C3_Witness ==
    /\ calls[FirstRequest].error > 0
    /\ returned.callback = "result"
    /\ Unwound(FirstRequest)
    /\ spans = EmptyBag

\* ---------------------------------------------------------------- C4
\* C4: a request has one terminal outcome: a request that erred is not
\* also counted as completed, and the duration histogram holds no
\* observation of it.
C4_OneTerminalOutcome ==
    \A r \in Requests :
        calls[r].error > 0
            => /\ calls[r].result = 0
               /\ HTTP_REQUEST_DURATION = EmptyBag
               /\ BagCardinality(HTTP_REQUESTS) = calls[r].error

\* ---------------------------------------------------------------- C5
\* C5: every error call adds one to graphql_requests and one to
\* graphql_requests_errors, both with the labels of that moment (the empty
\* string while no name is captured), and records no duration; so the
\* error counter counts the error calls.
C5_ErrorStep ==
    \A r \in Requests :
        ErrorStep(r) =>
            /\ HTTP_REQUESTS' = OneMore(HTTP_REQUESTS, CurrentLabels(r))
            /\ HTTP_REQUESTS_ERRORS' = OneMore(HTTP_REQUESTS_ERRORS, CurrentLabels(r))
            /\ HTTP_REQUEST_DURATION' = HTTP_REQUEST_DURATION
C5_Counts ==
    /\ BagCardinality(HTTP_REQUESTS_ERRORS) = calls[FirstRequest].error
    /\ BagCardinality(HTTP_REQUESTS) = calls[FirstRequest].error + calls[FirstRequest].result
    /\ BagCardinality(HTTP_REQUEST_DURATION) = calls[FirstRequest].result
C5_ErrorCounted == []C5_Counts /\ [][C5_ErrorStep]_vars

\* Two error calls, one before any field was tracked and one after.
C5_Witness ==
    /\ calls[FirstRequest].error = 2
    /\ CopiesIn([query |-> "", root |-> ""], HTTP_REQUESTS_ERRORS) = 1
    /\ CopiesIn([query |-> "getJane", root |-> "QueryRoot"], HTTP_REQUESTS_ERRORS) = 1
    /\ BagCardinality(HTTP_REQUESTS) = 2
    /\ HTTP_REQUEST_DURATION = EmptyBag

\* ---------------------------------------------------------------- C6
\* C6: resolve_end takes the id out of the in-flight map, so a second
\* resolve_end for the id finds nothing; a resolve_end for an id that is
\* not in flight exits no span, appends no stat and changes nothing else.
C6_ResolveEndOnce ==
    [][\A r \in Requests : \A info \in ResolveInfos :
        resolve_end(r, info) =>
            /\ info.current \notin DOMAIN fields'[r]
            /\ info.current \notin DOMAIN fields[r] =>
                  /\ TrackerUntouched(r)
                  /\ metrics' = metrics
                  /\ bad_exit' = bad_exit
                  /\ instruments' = instruments
                  /\ query_name' = query_name /\ query_root' = query_root
            /\ info.current \in DOMAIN fields[r] =>
                  /\ Len(metrics'[r].resolves) = Len(metrics[r].resolves) + 1
                  /\ spans' = spans (-) SetToBag({fields[r][info.current].span})]_vars

\* Field 1 has its stat and is no longer in flight while field 2 still is:
\* a further resolve_end for 1 is the repeated call.
C6_Witness ==
    /\ Len(metrics[FirstRequest].resolves) = 1
    /\ metrics[FirstRequest].resolves[1].pending_resolve.field_name = "getJane"
    /\ DOMAIN fields[FirstRequest] = {2}
    /\ BagCardinality(spans) >= 1

\* ---------------------------------------------------------------- C7
\* C7: result leaves (and reports) the resolver stats ordered by ascending
\* start offset, entries of equal offset in the order they were recorded,
\* none dropped and none duplicated.
IsStableSortOf(out, in) ==
    /\ Len(out) = Len(in)
    /\ \A i \in 1..Len(out) : \A j \in 1..Len(out) :
          i < j => out[i].start_offset <= out[j].start_offset
    /\ \E p \in [1..Len(in) -> 1..Len(in)] :
          /\ \A i \in 1..Len(in) : \A j \in 1..Len(in) : i # j => p[i] # p[j]
          /\ \A i \in 1..Len(in) : out[i] = in[p[i]]
          /\ \A i \in 1..Len(in) : \A j \in 1..Len(in) :
                (i < j /\ out[i].start_offset = out[j].start_offset) => p[i] < p[j]
C7_ResultSortsResolvers ==
    [][\A r \in Requests : \A ctx \in Contexts :
        result(r, ctx) =>
            /\ IsStableSortOf(metrics'[r].resolves, metrics[r].resolves)
            /\ returned'.value # None =>
                  LET reported == returned'.value[1].execution.resolvers
                  IN /\ Len(reported) = Len(metrics'[r].resolves)
                     /\ \A i \in 1..Len(reported) :
                           /\ reported[i].startOffset = metrics'[r].resolves[i].start_offset
                           /\ reported[i].path = metrics'[r].resolves[i].pending_resolve.path
                     /\ \A i \in 1..Len(reported) : \A j \in 1..Len(reported) :
                           i < j => reported[i].startOffset <= reported[j].startOffset]_vars

\* A reported summary with two resolvers that started at different times,
\* the earlier one first.
C7_Witness ==
    /\ returned.callback = "result"
    /\ returned.value # None
    /\ Len(returned.value[1].execution.resolvers) = 2
    /\ returned.value[1].execution.resolvers[1].startOffset
          < returned.value[1].execution.resolvers[2].startOffset
    /\ returned.value[1].execution.resolvers[1].path = <<"getJane">>
    /\ Len(metrics[FirstRequest].resolves) = 2

\* ---------------------------------------------------------------- C8
\* C8: query_name and query_root are captured from the first field
\* resolution the request tracks (its path and its parent type), only a
\* tracked resolve_start sets them, once captured they never change, and
\* they are the labels of what result and error emit.
C8_Captured ==
    \A r \in Requests :
        /\ query_name[r] = None => (fields[r] = EmptyMap /\ metrics[r].resolves = << >>)
        /\ <<query_name[r], query_root[r]>> \in
              { <<None, None>>,
                <<Some("getJane"), Some("QueryRoot")>>,
                <<Some("getJane.id"), Some("Query")>> }
C8_Step ==
    \A r \in Requests :
        /\ query_name[r] # None => query_name'[r] = query_name[r]
        /\ query_root[r] # None => query_root'[r] = query_root[r]
        /\ \A info \in ResolveInfos :
              ( /\ resolve_start(r, info)
                /\ query_name[r] = None
                /\ info.current \in DOMAIN fields'[r] )
              => /\ query_name'[r] = Some(path_to_string(info.field.path_node))
                 /\ query_root'[r] = Some(info.field.parent_type)
        /\ (query_name'[r] # query_name[r] \/ query_root'[r] # query_root[r])
              => \E info \in ResolveInfos : resolve_start(r, info)
        /\ \A ctx \in Contexts : result(r, ctx) =>
              /\ HTTP_REQUESTS' = OneMore(HTTP_REQUESTS, CurrentLabels(r))
              /\ \E v \in BagToSet(HTTP_REQUEST_DURATION') :
                    /\ v.labels = CurrentLabels(r)
                    /\ HTTP_REQUEST_DURATION' = OneMore(HTTP_REQUEST_DURATION, v)
        /\ ErrorStep(r) =>
              CopiesIn(CurrentLabels(r), HTTP_REQUESTS_ERRORS')
                  = CopiesIn(CurrentLabels(r), HTTP_REQUESTS_ERRORS) + 1
C9_DurationNotNegative ==
    [][\A r \in Requests : \A ctx \in Contexts :
        (stage[r] = Rank("execution_end") /\ result(r, ctx)) =>
            /\ metrics[r].end_time >= metrics[r].start_time
            /\ \A v \in BagToSet(HTTP_REQUEST_DURATION') : v.value >= 0
            /\ returned'.value # None =>
                  /\ returned'.value[1].duration >= 0
                  /\ returned'.value[1].duration =
                        (metrics[r].end_time - metrics[r].start_time) * NanosPerMilli]_vars

\* A summary of a request that was parsed at time 1 and finished at time 1.
C9_Witness ==
    /\ stage[FirstRequest] = Rank("result")
    /\ calls[FirstRequest].error = 0
    /\ returned.callback = "result"
    /\ returned.value # None
    /\ returned.value[1].startTime = to_rfc3339(1)
    /\ returned.value[1].endTime = to_rfc3339(1)
    /\ returned.value[1].duration = 0
    /\ Len(returned.value[1].execution.resolvers) = 1

\* --------------------------------------------------------------- C10
\* C10: result hands back nothing exactly when a configuration is present
\* whose return_tracing_data_to_client is false (the default is true);
\* otherwise it hands back the summary; what it records (the sorted stats,
\* the request count, the duration) is the same either way.
C10_ReturnGate ==
    [][\A r \in Requests : \A ctx \in Contexts :
        result(r, ctx) =>
            /\ returned'.value = None
                  <=> (ctx # None /\ ctx[1].return_tracing_data_to_client = FALSE)
            /\ returned'.value # None =>
                  /\ returned'.value[1].version = 1
                  /\ returned'.value[1].startTime = to_rfc3339(metrics[r].start_time)
                  /\ returned'.value[1].endTime = to_rfc3339(metrics[r].end_time)
            /\ IsStableSortOf(metrics'[r].resolves, metrics[r].resolves)
            /\ HTTP_REQUESTS' = OneMore(HTTP_REQUESTS, CurrentLabels(r))
            /\ HTTP_REQUEST_DURATION' = OneMore(HTTP_REQUEST_DURATION,
                  [ value |-> metrics[r].end_time - metrics[r].start_time,
                    labels |-> CurrentLabels(r) ])]_vars

\* A result that handed back nothing and still recorded the request.
C10_Witness ==
    /\ returned.callback = "result"
    /\ returned.value = None
    /\ BagCardinality(HTTP_REQUEST_DURATION) = 1
    /\ BagCardinality(HTTP_REQUESTS) = 1
    /\ OpenTelemetryConfig_default.return_tracing_data_to_client

\* --------------------------------------------------------------- C11
\* A request in which execution_start never fires: every other callback,
\* under either engine, while time passes.
InitEitherEngine == Create /\ engine \in {"any order", "normal order"}
EventNoExecute(r) ==
    \/ \E ctx \in Contexts : prepare_request(r, ctx)
    \/ parse_start(r)
    \/ parse_end(r)
    \/ validation_start(r)
    \/ validation_end(r)
    \/ execution_end(r)
    \/ \E info \in ResolveInfos : resolve_start(r, info)
    \/ \E info \in ResolveInfos : resolve_end(r, info)
    \/ \E ctx \in Contexts : result(r, ctx)
    \/ error(r)
NextNoExecute == Tick \/ EventNoExecute(FirstRequest)
SpecNoExecute == InitEitherEngine /\ [][NextNoExecute]_vars

\* C11: while execution_start has never fired, no field is tracked and no
\* stat recorded whatever else fires, no execute span exists, and an error
\* then leaves zero resolver entries, closes an open parse span, leaves a
\* validation span that was not open unopened, and adds exactly one to the
\* error counter.
C11_NothingTracked ==
    \A r \in Requests :
        /\ fields[r] = EmptyMap
        /\ metrics[r].resolves = << >>
        /\ traces[r].execute = None
        /\ \A s \in BagToSet(spans) : s.kind \notin {"execute", "field_resolver"}
C11_ErrorStep ==
    \A r \in Requests :
        ErrorStep(r) =>
            /\ metrics'[r].resolves = << >>
            /\ traces'[r].parse = None
            /\ \A s \in OpenSpans(r)' : s.kind # "parse"
            /\ traces[r].validation = None =>
                  (traces'[r].validation = None
                      /\ \A s \in OpenSpans(r)' : s.kind # "validation")
            /\ BagCardinality(HTTP_REQUESTS_ERRORS')
                  = BagCardinality(HTTP_REQUESTS_ERRORS) + 1
C11_NoExecutionNoResolvers == []C11_NothingTracked /\ [][C11_ErrorStep]_vars

\* parse_start was the latest lifecycle event, it opened the parse span at
\* time 1, and the one error that followed unwound it.
C11_Witness ==
    /\ engine = "normal order"
    /\ stage[FirstRequest] = Rank("parse_start")
    /\ metrics[FirstRequest].start_time = 1
    /\ calls[FirstRequest].error = 1
    /\ BagCardinality(HTTP_REQUESTS_ERRORS) = 1
    /\ metrics[FirstRequest].resolves = << >>
    /\ Unwound(FirstRequest)
    /\ spans = EmptyBag

\* --------------------------------------------------------------- C12
\* What the claims say about the parent of a field.
HasParentId(info) == info.parent # None /\ info.parent[1] > 0
\* resolve_start tracked info in this step under the span parent.
TrackedUnder(r, info, parent) ==
    /\ info.current \in DOMAIN fields'[r]
    /\ fields'[r][info.current].span.kind = "field_resolver"
    /\ fields'[r][info.current].span.key = info.current
    /\ fields'[r][info.current].span.parent = Some([kind |-> parent.kind, key |-> parent.key])
    /\ BagIn(fields'[r][info.current].span, spans')
\* resolve_start skipped the call: nothing of the request changed.
Skipped(r) ==
    /\ TrackerUntouched(r)
    /\ metrics' = metrics
    /\ query_name' = query_name /\ query_root' = query_root

\* C12 (as stated): the parent is the in-flight field of a non-zero parent
\* id that is in the map, otherwise the execute span if it is open; so
\* whenever execute is open the field is tracked, under execute if its
\* parent id is not in flight; the call is skipped only if neither exists.
C12_FallsBackToExecute ==
    [][\A r \in Requests : \A info \in ResolveInfos :
        resolve_start(r, info) =>
            IF HasParentId(info) /\ info.parent[1] \in DOMAIN fields[r]
            THEN TrackedUnder(r, info, fields[r][info.parent[1]].span)
            ELSE IF traces[r].execute # None
            THEN TrackedUnder(r, info, traces[r].execute[1])
            ELSE Skipped(r)]_vars

\* C12 (amended): the parent id alone decides where the parent is looked
\* up.  With a non-zero parent id the parent is that id's in-flight field,
\* and if the id is not in flight the call is skipped, execute open or not;
\* with parent id 0 or none the parent is the execute span, and if execute
\* is not open the call is skipped.
C12_ParentById ==
    [][\A r \in Requests : \A info \in ResolveInfos :
        resolve_start(r, info) =>
            IF HasParentId(info)
            THEN IF info.parent[1] \in DOMAIN fields[r]
                 THEN TrackedUnder(r, info, fields[r][info.parent[1]].span)
                 ELSE Skipped(r)
            ELSE IF traces[r].execute # None
                 THEN TrackedUnder(r, info, traces[r].execute[1])
                 ELSE Skipped(r)]_vars

\* Field 1 is in flight under the execute span and field 2 under field 1.
C12_Witness ==
    /\ DOMAIN fields[FirstRequest] = {1, 2}
    /\ fields[FirstRequest][1].span.parent = Some([kind |-> "execute", key |-> 0])
    /\ fields[FirstRequest][2].span.parent = Some([kind |-> "field_resolver", key |-> 1])
    /\ traces[FirstRequest].execute # None

\* --------------------------------------------------------------- C13
\* The step stored a new, entered span of the kind in the slot, its parent
\* the root span if that is open and none otherwise.
PhaseSpanStored(r, slot, kind) ==
    /\ traces'[r][slot] # None
    /\ traces'[r][slot][1].kind = kind
    /\ traces'[r][slot][1].parent =
          IF traces[r].root # None
          THEN Some([kind |-> traces[r].root[1].kind, key |-> traces[r].root[1].key])
          ELSE None
    /\ BagIn(traces'[r][slot][1], spans')
    /\ \A other \in DOMAIN traces[r] \ {slot} : traces'[r][other] = traces[r][other]

\* C13 (as stated): parse_start, validation_start and execution_start each
\* create, enter and store their span, under the root if it is open and
\* without a parent otherwise, also when there is no root.
C13_PhaseStartAlwaysStores ==
    [][\A r \in Requests :
        /\ parse_start(r) => PhaseSpanStored(r, "parse", "parse")
        /\ validation_start(r) => PhaseSpanStored(r, "validation", "validation")
        /\ execution_start(r) => PhaseSpanStored(r, "execute", "execute")]_vars

\* C13 (amended): execution_start always creates, enters and stores the
\* execute span, under the root if it is open and without a parent
\* otherwise.  parse_start and validation_start do so only while the root
\* span is open; without a root they change nothing (parse_start does not
\* set the start time then).
C13_PhaseStartNeedsRoot ==
    [][\A r \in Requests :
        /\ parse_start(r) =>
              IF traces[r].root # None
              THEN PhaseSpanStored(r, "parse", "parse") /\ metrics'[r].start_time = now
              ELSE Skipped(r)
        /\ validation_start(r) =>
              IF traces[r].root # None
              THEN PhaseSpanStored(r, "validation", "validation") /\ metrics' = metrics
              ELSE Skipped(r)
        /\ execution_start(r) => PhaseSpanStored(r, "execute", "execute")]_vars

\* validation_start was the latest event of a request that never had a
\* root: it stored nothing, and neither did a parse_start before it.
C13_Witness ==
    /\ engine = "normal order"
    /\ stage[FirstRequest] = Rank("validation_start")
    /\ calls[FirstRequest].error = 0
    /\ NoPhaseSpan(FirstRequest)
    /\ spans = EmptyBag
    /\ ~dropped_entered[FirstRequest]

\* --------------------------------------------------------------- C14
\* The spans stored in the given slots of the tracker of r.
StoredIn(r, slots) == {traces[r][s][1] : s \in {x \in slots : traces[r][x] # None}}
\* The step emptied the given slots, exited what they held and nothing
\* else, and left the other slots and the in-flight map alone.
SlotsClosed(r, slots) ==
    /\ \A s \in slots : traces'[r][s] = None
    /\ \A s \in DOMAIN traces[r] \ slots : traces'[r][s] = traces[r][s]
    /\ spans' = spans (-) SetToBag(StoredIn(r, slots))
    /\ fields' = fields
    /\ query_name' = query_name /\ query_root' = query_root
    /\ instruments' = instruments

\* C14 (as stated): parse_end, validation_end and execution_end each
\* remove and exit the span of their own phase only, and change no
\* request state at all when that span is absent.
C14_EndClosesOwnPhaseOnly ==
    [][\A r \in Requests :
        /\ parse_end(r) => (SlotsClosed(r, {"parse"}) /\ metrics' = metrics)
        /\ validation_end(r) => (SlotsClosed(r, {"validation"}) /\ metrics' = metrics)
        /\ execution_end(r) => (SlotsClosed(r, {"execute"}) /\ metrics' = metrics)]_vars

\* C14 (amended): parse_end and validation_end remove and exit the span
\* of their own phase only and change nothing when it is absent.
\* execution_end removes and exits the execute span and the root span,
\* each if present, leaves parse, validation and the in-flight map alone,
\* and sets the end time to the current time whether or not a span was
\* present.
C14_EndClosesPhase ==
    [][\A r \in Requests :
        /\ parse_end(r) => (SlotsClosed(r, {"parse"}) /\ metrics' = metrics)
        /\ validation_end(r) => (SlotsClosed(r, {"validation"}) /\ metrics' = metrics)
        /\ execution_end(r) =>
              /\ SlotsClosed(r, {"execute", "root"})
              /\ metrics' = [metrics EXCEPT ![r].end_time = now]]_vars

\* execution_end was the latest event, at time 1: the root is gone with
\* the execute span, the parse span that parse_end never closed is still
\* stored and open.
C14_Witness ==
    /\ stage[FirstRequest] = Rank("execution_end")
    /\ metrics[FirstRequest].end_time = 1
    /\ traces[FirstRequest].root = None
    /\ traces[FirstRequest].execute = None
    /\ traces[FirstRequest].parse # None
    /\ spans = SetToBag({traces[FirstRequest].parse[1]})

\* --------------------------------------------------------------- C15
\* A request under an engine that keeps the normal order, with at most one
\* error and fields without a parent id, while time passes.
EventTimes(r) ==
    \/ \E ctx \in Contexts : prepare_request(r, ctx)
    \/ parse_start(r)
    \/ parse_end(r)
    \/ validation_start(r)
    \/ validation_end(r)
    \/ execution_start(r)
    \/ execution_end(r)
    \/ \E info \in ResolveInfos : info.parent = None /\ resolve_start(r, info)
    \/ \E info \in ResolveInfos : info.parent = None /\ resolve_end(r, info)
    \/ \E ctx \in Contexts : result(r, ctx)
    \/ calls[r].error = 0 /\ error(r)
NextTimes == Tick \/ EventTimes(FirstRequest)
SpecTimes == InitLifecycle /\ [][NextTimes]_vars

\* No step but parse_start changes the start time, none but execution_end
\* the end time, and result reports the two stored times.
TimesFrame(r) ==
    /\ ~parse_start(r) => metrics'[r].start_time = metrics[r].start_time
    /\ ~execution_end(r) => metrics'[r].end_time = metrics[r].end_time
    /\ \A ctx \in Contexts :
          (result(r, ctx) /\ returned'.value # None) =>
              /\ returned'.value[1].startTime = to_rfc3339(metrics[r].start_time)
              /\ returned'.value[1].endTime = to_rfc3339(metrics[r].end_time)

\* C15 (as stated): the start time is the time at which parse_start fired,
\* the end time the time at which execution_end fired, no other event
\* changes either, and result reports them as stored.
C15_TimesOfEvents ==
    [][\A r \in Requests :
        /\ parse_start(r) => metrics'[r].start_time = now
        /\ execution_end(r) => metrics'[r].end_time = now
        /\ TimesFrame(r)]_vars

\* C15 (amended): both times start as the time of creation.  A parse_start
\* that finds the root span open sets the start time to its own time; a
\* parse_start without a root leaves it as it was.  Every execution_end
\* sets the end time to its own time.  No other event changes either, and
\* result reports them as stored.
C15_Step ==
    \A r \in Requests :
        /\ parse_start(r) =>
              metrics'[r].start_time = IF traces[r].root # None THEN now
                                       ELSE metrics[r].start_time
        /\ execution_end(r) => metrics'[r].end_time = now
        /\ TimesFrame(r)
C15_Created ==
    \A r \in Requests :
        /\ (engine = "normal order" /\ stage[r] < Rank("parse_start"))
              => metrics[r].start_time = 0
        /\ (engine = "normal order" /\ stage[r] < Rank("execution_end"))
              => metrics[r].end_time = 0
C15_TimesCaptured == []C15_Created /\ [][C15_Step]_vars

\* parse_start was the latest event and found the root open at time 1.
C15_Witness ==
    /\ stage[FirstRequest] = Rank("parse_start")
    /\ now = 1
    /\ metrics[FirstRequest].start_time = 1
    /\ metrics[FirstRequest].end_time = 0
    /\ traces[FirstRequest].parse # None
    /\ traces[FirstRequest].root # None

\* --------------------------------------------------------------- C16
\* The exits of an unwind: first one per in-flight field, then the stored
\* phase spans in the order execute, validation, parse, root.
InFlight(r) == Cardinality(DOMAIN fields[r])
PhasesInOrder(r) ==
    traces[r].execute \o traces[r].validation \o traces[r].parse \o traces[r].root
FieldsThenPhases(r, exits) ==
    /\ Len(exits) = InFlight(r) + Len(PhasesInOrder(r))
    /\ SubSeq(exits, InFlight(r) + 1, Len(exits)) = PhasesInOrder(r)
    /\ {exits[i] : i \in 1..InFlight(r)} = {fields[r][k].span : k \in DOMAIN fields[r]}
\* The time at which the field of an exited span went into the map.
InsertedAt(r, span) == fields[r][span.key].metrics.start_time

\* C16 (as stated): error exits the in-flight field spans in the order in
\* which they were inserted (a field inserted earlier is exited before one
\* inserted later), then execute, validation, parse, root.
C16_UnwindInInsertionOrder ==
    [][\A r \in Requests :
        ErrorStep(r) =>
            /\ FieldsThenPhases(r, error_exits(r))
            /\ spans' = span_exit(spans, error_exits(r))
            /\ \A i \in 1..InFlight(r) : \A j \in 1..InFlight(r) :
                  InsertedAt(r, error_exits(r)[i]) < InsertedAt(r, error_exits(r)[j])
                      => i < j]_vars

\* C16 (amended): error exits the in-flight field spans in ascending order
\* of their resolve ids, whatever the order of their resolve_start events,
\* and only then the stored phase spans in the order execute, validation,
\* parse, root.
C16_UnwindInIdOrder ==
    [][\A r \in Requests :
        ErrorStep(r) =>
            /\ FieldsThenPhases(r, error_exits(r))
            /\ spans' = span_exit(spans, error_exits(r))
            /\ \A i \in 1..InFlight(r) : \A j \in 1..InFlight(r) :
                  i < j => error_exits(r)[i].key < error_exits(r)[j].key]_vars

\* An error came while fields were being resolved, after getJane.id had
\* been tracked first, and unwound everything.
C16_Witness ==
    /\ stage[FirstRequest] = Rank("resolve")
    /\ calls[FirstRequest].error = 1
    /\ query_name[FirstRequest] = Some("getJane.id")
    /\ metrics[FirstRequest].resolves = << >>
    /\ Unwound(FirstRequest)
    /\ spans = EmptyBag
    /\ now = 1

\* --------------------------------------------------------------- C17
\* C17: an error leaves the tracker unwound and no span of the request
\* open; an error that finds it so (as one that follows an error at once
\* does) exits no span and leaves the tracker and the recorded stats
\* unchanged: only the two counter increments repeat.
C17_ErrorAgain ==
    [][\A r \in Requests :
        ErrorStep(r) =>
            /\ Unwound(r)' /\ OpenSpans(r)' = {}
            /\ (Unwound(r) /\ OpenSpans(r) = {}) =>
                  /\ TrackerUntouched(r)
                  /\ bad_exit' = bad_exit
                  /\ metrics' = metrics
                  /\ query_name' = query_name /\ query_root' = query_root
                  /\ HTTP_REQUEST_DURATION' = HTTP_REQUEST_DURATION
                  /\ BagCardinality(HTTP_REQUESTS') = BagCardinality(HTTP_REQUESTS) + 1
                  /\ BagCardinality(HTTP_REQUESTS_ERRORS')
                        = BagCardinality(HTTP_REQUESTS_ERRORS) + 1]_vars

\* Two errors counted under the same labels, a stat recorded before them
\* still in place, nothing open.
C17_Witness ==
    /\ calls[FirstRequest].error = 2
    /\ CopiesIn([query |-> "getJane", root |-> "QueryRoot"], HTTP_REQUESTS_ERRORS) = 2
    /\ Len(metrics[FirstRequest].resolves) = 1
    /\ Unwound(FirstRequest)
    /\ spans = EmptyBag

Accounted(r) == InFlight(r) + Len(metrics[r].resolves)

\* C19: in a request without an error, a resolve_start that tracks its
\* field adds one entry to the in-flight map and leaves the others as they
\* are; a resolve_end of an id in flight removes that entry only and
\* appends one stat carrying the entry's own path, types and start time;
\* no other event changes the map or the stats.  So the entries in flight
\* plus the stats recorded count the tracked resolve_start calls, however
\* starts and ends of different ids interleave.
C19_FieldsAccounted ==
    [][\A r \in Requests :
        /\ \A info \in ResolveInfos :
              resolve_start(r, info) =>
                  /\ metrics' = metrics
                  /\ IF info.current \in DOMAIN fields'[r]
                     THEN /\ Accounted(r)' = Accounted(r) + 1
                          /\ DOMAIN fields'[r] = DOMAIN fields[r] \cup {info.current}
                          /\ \A k \in DOMAIN fields[r] : fields'[r][k] = fields[r][k]
                          /\ fields'[r][info.current].metrics =
                                [ path |-> info.field.path_node,
                                  field_name |-> info.field.path_node[Len(info.field.path_node)],
                                  parent_type |-> info.field.parent_type,
                                  return_type |-> info.field.return_type,
                                  start_time |-> now ]
                     ELSE fields' = fields
        /\ \A info \in ResolveInfos :
              (resolve_end(r, info) /\ info.current \in DOMAIN fields[r]) =>
                  /\ Accounted(r)' = Accounted(r)
                  /\ DOMAIN fields'[r] = DOMAIN fields[r] \ {info.current}
                  /\ \A k \in DOMAIN fields'[r] : fields'[r][k] = fields[r][k]
                  /\ metrics'[r].resolves = Append(metrics[r].resolves,
                        [ pending_resolve |-> fields[r][info.current].metrics,
                          start_offset |->
                              (fields[r][info.current].metrics.start_time
                                  - metrics[r].start_time) * NanosPerMilli,
                          end_time |-> now ])
                  /\ fields[r][info.current].metrics.path = info.field.path_node
        /\ ( /\ ~ \E info \in ResolveInfos : resolve_start(r, info)
             /\ ~ \E info \in ResolveInfos : resolve_end(r, info)
             /\ ~ ResultStep(r) )
              => (fields'[r] = fields[r] /\ metrics'[r].resolves = metrics[r].resolves)
        /\ ResultStep(r) => (fields'[r] = fields[r] /\ Accounted(r)' = Accounted(r))]_vars

\* getJane.id was started at time 1, after its sibling getJane, and ended
\* first: its stat is recorded with its own path and start time while
\* getJane, started at time 0, is still in flight.
C19_Witness ==
    /\ calls[FirstRequest].error = 0
    /\ DOMAIN fields[FirstRequest] = {1}
    /\ fields[FirstRequest][1].metrics.start_time = 0
    /\ fields[FirstRequest][1].metrics.path = <<"getJane">>
    /\ Len(metrics[FirstRequest].resolves) = 1
    /\ metrics[FirstRequest].resolves[1].pending_resolve.path = <<"getJane", "id">>
    /\ metrics[FirstRequest].resolves[1].pending_resolve.parent_type = "Query"
    /\ metrics[FirstRequest].resolves[1].pending_resolve.start_time = 1

\* --------------------------------------------------------------- C20
\* Two concurrent requests, each with its own instance and its own field,
\* under an engine that keeps the normal order within each request and
\* interleaves the two freely.  Each request has no configuration, resolves
\* its field once and reports at most one error; the clock ticks once.
PairInfos(r) == {info \in ResolveInfos : info.current = r /\ info.parent = None}
EventPair(r) ==
    \/ prepare_request(r, None)
    \/ parse_start(r)
    \/ parse_end(r)
    \/ validation_start(r)
    \/ validation_end(r)
    \/ execution_start(r)
    \/ execution_end(r)
    \/ \E info \in PairInfos(r) : metrics[r].resolves = << >> /\ resolve_start(r, info)
    \/ \E info \in PairInfos(r) : resolve_end(r, info)
    \/ result(r, None)
    \/ calls[r].error = 0 /\ error(r)
NextPair == (now = 0 /\ Tick) \/ \E r \in Requests : EventPair(r)
SpecPair == InitLifecycle /\ [][NextPair]_vars

\* The state of request r: its tracker, its stats and times, its query
\* identity, and its spans at the subscriber.
OwnStateUnchanged(r) ==
    /\ traces'[r] = traces[r]
    /\ fields'[r] = fields[r]
    /\ metrics'[r] = metrics[r]
    /\ query_name'[r] = query_name[r]
    /\ query_root'[r] = query_root[r]
    /\ \A s \in BagToSet(spans) \cup BagToSet(spans') :
          s.req = r => CopiesIn(s, spans') = CopiesIn(s, spans)
    /\ dropped_entered'[r] = dropped_entered[r]

RECURSIVE TotalCalls(_, _)
TotalCalls(rs, outcome) ==
    IF rs = {} THEN 0
    ELSE LET r == CHOOSE x \in rs : TRUE
         IN calls[r][outcome] + TotalCalls(rs \ {r}, outcome)

\* C20: an event of one request changes nothing of the other request's
\* tracker, in-flight map, stats, times and query identity; the metric
\* instruments are shared, and they hold one request count per result and
\* per error call, one error count per error call and one duration per
\* result call, summed over the requests.
C20_OthersUntouched ==
    \A r \in Requests : \A q \in Requests \ {r} :
        EventPair(q) => OwnStateUnchanged(r)
C20_Totals ==
    /\ BagCardinality(HTTP_REQUESTS)
          = TotalCalls(Requests, "error") + TotalCalls(Requests, "result")
    /\ BagCardinality(HTTP_REQUESTS_ERRORS) = TotalCalls(Requests, "error")
    /\ BagCardinality(HTTP_REQUEST_DURATION) = TotalCalls(Requests, "result")
C20_RequestsIsolated == []C20_Totals /\ [][C20_OthersUntouched]_vars

\* Both requests ran side by side: one failed while parsing at time 1, the
\* other got its result under its own query name; each kept its own times.
C20_Witness ==
    /\ calls[1].error = 1 /\ calls[1].result = 0
    /\ calls[2].result = 1 /\ calls[2].error = 0
    /\ metrics[1].start_time = 1
    /\ metrics[2].start_time = 0 /\ metrics[2].end_time = 1
    /\ query_name[1] = None
    /\ query_name[2] = Some("getJane.id")
    /\ Len(metrics[2].resolves) = 1
    /\ CopiesIn([query |-> "", root |-> ""], HTTP_REQUESTS_ERRORS) = 1
    /\ CopiesIn([query |-> "getJane.id", root |-> "Query"], HTTP_REQUESTS) = 1
    /\ BagCardinality(HTTP_REQUESTS) = 2

\* --------------------------------------------------------------- C21
\* C21: in every reachable state query_name is set exactly when query_root
\* is set, and both are set whenever a field is in flight or a stat is
\* recorded.
C21_NameIffRoot ==
    \A r \in Requests :
        /\ is_some(query_name[r]) <=> is_some(query_root[r])
        /\ (fields[r] # EmptyMap \/ metrics[r].resolves # << >>)
              => (is_some(query_name[r]) /\ is_some(query_root[r]))

\* Both are set, with a field in flight and a stat recorded, in a request
\* in which an error has fired.

C21_Witness ==
    /\ calls[FirstRequest].error > 0
    /\ is_some(query_name[FirstRequest])
    /\ is_some(query_root[FirstRequest])
    /\ fields[FirstRequest] # EmptyMap
    /\ metrics[FirstRequest].resolves # << >>

====
